---- MODULE Spec2Model ----
(***************************************************************************)
(* Quiz reconciliation engine of the Deck API gateway.                     *)
(*                                                                         *)
(* geminiQuizService (src/src/services/quizService.js) is modelled one     *)
(* await at a time over the Firestore collections it touches through       *)
(* deckRepository.js and quizRepository.js: decks/{id}, the flashcards     *)
(* sub-collection, quiz/{id} and quiz/{id}/question_and_answers with the   *)
(* choices nested in each question.                                        *)
(*                                                                         *)
(* aiService.js (sendPromptInline) and the exports db / timeStamp of       *)
(* firebaseAdminConfig.js are not part of the sources at hand; they are    *)
(* modelled from the design document: the AI client returns a parsed       *)
(* object or throws, and timeStamp stands for the time of the write.       *)
(*                                                                         *)
(* models/deckModel.js carries three definitions of formatDeck; the        *)
(* engine reads deck.questions, which only the definition at lines 20-33   *)
(* produces, so that one is modelled.                                      *)
(***************************************************************************)
EXTENDS Integers, Sequences, FiniteSets, TLC

(* ----------------------------- bounds --------------------------------- *)
MaxTime == 2
MaxCalls == 3
MaxAdds == 1
MaxFaults == 1
MaxOverlappingCalls == 2

(* ------------------------- program constants -------------------------- *)
batchSize == 20

(* --------------------------- JS values -------------------------------- *)
\* A JavaScript value is a record tagged with its typeof.
Str(s) == [t |-> "string", s |-> s]
Num(n) == [t |-> "number", n |-> n]
Undefined == [t |-> "undefined"]

TypeOf(x) == x.t

\* !x
Falsy(x) ==
    CASE x.t = "string" -> x.s = ""
      [] x.t = "number" -> x.n = 0
      [] x.t = "undefined" -> TRUE
      [] x.t = "null" -> TRUE
      [] x.t = "boolean" -> ~x.b
      [] OTHER -> FALSE

\* !x || typeof x !== 'string'
NotNonEmptyString(x) == Falsy(x) \/ TypeOf(x) # "string"

(* ----------------------------- inputs --------------------------------- *)
\* decks/d1 exists, decks/d2 does not.
ExistingDecks == {"d1"}
DeckIdInputs == {Str("d1"), Str("d2"), Str(""), Num(7), Undefined}
UserIdInputs == {Str("u1"), Str(""), Undefined}

Callers == {1, 2}

VARIABLES
    now,        \* the clock behind timeStamp
    decks,      \* decks/{id}: [title, has_marker, made_to_quiz_at]
    flashcards, \* decks/{id}/flashcards: sequence of [created_at, is_deleted]; the index is the document id
    quiz,       \* quiz/{id}: the documents in document-id order
    qna,        \* question_and_answers documents, in write order, with their choices
    calls,      \* one record per request in flight or finished
    started,    \* number of requests started
    adds,       \* number of createFlashcard requests served
    faults,     \* number of store faults injected
    last,       \* per deck: outcome of the request that finished last
    addedSince  \* per deck: a flashcard was added after the last flashcard read of a request

vars == <<now, decks, flashcards, quiz, qna, calls, started, adds, faults, last, addedSince>>


(* ------------------------ more JS values ------------------------------ *)
Null == [t |-> "null"]
Bool(b) == [t |-> "boolean", b |-> b]
\* A JS array; Array.isArray(x) is x.t = "array".
Arr(items) == [t |-> "array", items |-> items]
IsArray(x) == x.t = "array"

\* Document id of the flashcard at position i of the sub-collection.
FlashcardId(i) == "f" \o ToString(i)
\* Document id of the n-th quiz document created.
QuizDocId(n) == "q" \o ToString(n)

(* ---------------------- deckRepository.js ----------------------------- *)
\* where("is_deleted", "==", false): the matching document positions, in document order.
RECURSIVE LiveFrom(_, _)
LiveFrom(cards, i) ==
    IF i > Len(cards) THEN <<>>
    ELSE IF cards[i].is_deleted THEN LiveFrom(cards, i + 1)
    ELSE <<i>> \o LiveFrom(cards, i + 1)

NonDeleted(cards) == LiveFrom(cards, 1)

\* formatDeck(...).questions: one entry per flashcard handed in, in order.
formatDeck(deckId, cards, live) ==
    [id |-> deckId, questions |-> [k \in 1..Len(live) |-> [id |-> FlashcardId(live[k])]]]

\* where is_deleted == false, where created_at >= madeToQuizAt: ordered by created_at, then document id.
RECURSIVE NewFrom(_, _, _)
NewFrom(cards, madeToQuizAt, t) ==
    IF t > MaxTime + 1 THEN <<>>
    ELSE SelectSeq(NonDeleted(cards), LAMBDA i : cards[i].created_at = t /\ cards[i].created_at >= madeToQuizAt)
         \o NewFrom(cards, madeToQuizAt, t + 1)

\* Mutant: the query with a strict bound, created_at > madeToQuizAt.
NewFlashcardsQuery_Strict(cards, madeToQuizAt) ==
    LET ids == SelectSeq(NonDeleted(cards), LAMBDA i : cards[i].created_at > madeToQuizAt)
    IN  [k \in 1..Len(ids) |-> [id |-> FlashcardId(ids[k])]]

NewFlashcardsQuery(cards, madeToQuizAt) ==
    LET ids == NewFrom(cards, madeToQuizAt, 0)
    IN  [k \in 1..Len(ids) |-> [id |-> FlashcardId(ids[k])]]

\* Mutant: deckRef.set(data), which replaces the document by the given fields.
updateDeck_Set(doc, data) ==
    [title |-> "", has_marker |-> TRUE, made_to_quiz_at |-> data.made_to_quiz_at]

\* Lines 116-132, updateDeck: deckRef.update(data) writes the given fields and keeps
\* the others. The engine only ever hands it {made_to_quiz_at: ...}.
updateDeck(doc, data) ==
    [doc EXCEPT !.has_marker = TRUE, !.made_to_quiz_at = data.made_to_quiz_at]

(* ----------------------- quizRepository.js ---------------------------- *)
\* createChoices: the validation loop; "" when every choice passes.
RECURSIVE ChoicesError(_, _)
ChoicesError(choices, k) ==
    IF k > Len(choices) THEN ""
    ELSE IF NotNonEmptyString(choices[k].text) THEN "INVALID_CHOICE_TEXT"
    ELSE IF TypeOf(choices[k].is_correct) # "boolean" THEN "INVALID_CHOICE_CORRECTNESS"
    ELSE ChoicesError(choices, k + 1)

\* Mutant: an entry without related_flashcard_id is skipped too.
SkipItem_AlsoUnrelated(item) ==
    \/ NotNonEmptyString(item.question)
    \/ NotNonEmptyString(item.related_flashcard_id)
    \/ ~IsArray(item.choices)
    \/ Len(item.choices.items) = 0

\* The three `continue` tests of the write loop of createQuestionAndAnswer.
SkipItem(item) ==
    \/ NotNonEmptyString(item.question)
    \/ (~Falsy(item.related_flashcard_id) /\ TypeOf(item.related_flashcard_id) # "string")
    \/ ~IsArray(item.choices)
    \/ Len(item.choices.items) = 0

\* The question document of ref.add, with the choices createChoices adds under it
\* (the created_at stamps of quiz and question documents are never read and are left out).
QuestionDoc(quizId, item, choices) ==
    [quiz |-> quizId,
     question |-> item.question.s,
     related_flashcard_id |-> IF Falsy(item.related_flashcard_id) THEN "null" ELSE item.related_flashcard_id.s,
     choices |-> [k \in 1..Len(choices) |-> [text |-> choices[k].text.s, is_correct |-> choices[k].is_correct.b]]]

\* The write loop of createQuestionAndAnswer from item j on: the documents written,
\* the number of writes, and the error that ended it ("" when it ran to the end).
\* faultAt is the item whose ref.add the store rejects (0: none).
RECURSIVE WriteLoop(_, _, _, _)
WriteLoop(quizId, items, j, faultAt) ==
    IF j > Len(items) THEN [docs |-> <<>>, writes |-> 0, error |-> ""]
    ELSE IF SkipItem(items[j]) THEN WriteLoop(quizId, items, j + 1, faultAt)
    ELSE IF j = faultAt THEN [docs |-> <<>>, writes |-> 0, error |-> "UNAVAILABLE"]
    ELSE LET err == ChoicesError(items[j].choices.items, 1)
         IN  IF err # ""
             THEN [docs |-> <<QuestionDoc(quizId, items[j], <<>>)>>, writes |-> 1, error |-> err]
             ELSE LET rest == WriteLoop(quizId, items, j + 1, faultAt)
                  IN  [docs |-> <<QuestionDoc(quizId, items[j], items[j].choices.items)>> \o rest.docs,
                       writes |-> 1 + Len(items[j].choices.items) + rest.writes,
                       error |-> rest.error]

createQuestionAndAnswer(quizId, questionAndAnswer, faultAt) ==
    IF quizId = "" THEN [docs |-> <<>>, writes |-> 0, error |-> "INVALID_QUIZ_ID"]
    ELSE IF ~IsArray(questionAndAnswer) \/ Len(questionAndAnswer.items) = 0
    THEN [docs |-> <<>>, writes |-> 0, error |-> "INVALID_QUESTION_AND_ANSWER_DATA"]
    ELSE WriteLoop(quizId, questionAndAnswer.items, 1, faultAt)

\* Mutant: the query matches the deck id against the document id of the quiz.
getQuizByDeckIDAndQuizType_ByDocId(deckId, quizType) ==
    SelectSeq(quiz, LAMBDA q : q.id = deckId /\ q.quiz_type = quizType)

\* getQuizByDeckIDAndQuizType: the matching documents, in document-id order.
getQuizByDeckIDAndQuizType(deckId, quizType) ==
    SelectSeq(quiz, LAMBDA q : q.associated_deck_id = deckId /\ q.quiz_type = quizType)


(* -------------------------- aiService.js ------------------------------ *)
Choice(text, correct) == [text |-> Str(text), is_correct |-> Bool(correct)]
TwoChoices == Arr(<<Choice("a", TRUE), Choice("b", FALSE)>>)

GoodItem(fid) == [question |-> Str("Q"), related_flashcard_id |-> Str(fid), choices |-> TwoChoices]
UnrelatedItem == [question |-> Str("Q"), related_flashcard_id |-> Null, choices |-> TwoChoices]
NoQuestionItem(fid) == [question |-> Undefined, related_flashcard_id |-> Str(fid), choices |-> TwoChoices]
NoChoicesItem(fid) == [question |-> Str("Q"), related_flashcard_id |-> Str(fid), choices |-> Null]
EmptyChoicesItem(fid) == [question |-> Str("Q"), related_flashcard_id |-> Str(fid), choices |-> Arr(<<>>)]
BadChoiceTextItem(fid) ==
    [question |-> Str("Q"), related_flashcard_id |-> Str(fid),
     choices |-> Arr(<<Choice("a", TRUE), [text |-> Undefined, is_correct |-> Bool(FALSE)]>>)]
BadChoiceFlagItem(fid) ==
    [question |-> Str("Q"), related_flashcard_id |-> Str(fid),
     choices |-> Arr(<<Choice("a", TRUE), [text |-> Str("b"), is_correct |-> Str("false")]>>)]
TwoCorrectItem(fid) ==
    [question |-> Str("Q"), related_flashcard_id |-> Str(fid),
     choices |-> Arr(<<Choice("a", TRUE), Choice("b", TRUE)>>)]

\* What sendPromptInline may hand back for a batch: a thrown error, or a parsed object.
Thrown == [t |-> "throw"]
Parsed(quiz_data) == [t |-> "object", quiz_data |-> quiz_data]
QuizData(quizValue) == [t |-> "object", quiz |-> quizValue]

AiQuizArrays(batch) ==
    LET f == batch[1].id
        l == batch[Len(batch)].id
    IN  { <<>>,
          <<GoodItem(f), GoodItem(l)>>,
          <<NoQuestionItem(f), NoChoicesItem(f), UnrelatedItem, EmptyChoicesItem(l), TwoCorrectItem(l)>>,
          <<GoodItem(f), BadChoiceTextItem(l), GoodItem(l)>>,
          <<BadChoiceFlagItem(f), GoodItem(l)>> }

sendPromptInline(batch) ==
    {Thrown, Parsed(Undefined), Parsed(QuizData(Str("none")))}
    \cup {Parsed(QuizData(Arr(a))) : a \in AiQuizArrays(batch)}

(* ------------------------- quizService.js ----------------------------- *)
NoData == [k |-> "null"]

IdleCall ==
    [pc |-> "idle", deckId |-> Undefined, id |-> Undefined,
     field_exists |-> FALSE, quizId |-> "", path |-> "none",
     list |-> <<>>, i |-> 0, result |-> Null, madeToQuizAt |-> 0,
     status |-> 0, request_owner_id |-> Undefined, message |-> "", data |-> NoData,
     reads |-> 0, writes |-> 0, aiCalls |-> 0,
     \* history of the request, read by the properties only
     prev |-> [status |-> 0, data |-> NoData], noAdd |-> FALSE, fault |-> FALSE,
     batches |-> 0, wroteMarker |-> FALSE, createdQuiz |-> FALSE, error |-> "",
     aiLog |-> <<>>, aiReturned |-> 0, cardsRead |-> 0]

\* Mutant: the switch without its DECK_NOT_FOUND case.
StatusOf_NoNotFoundCase(error) ==
    CASE error = "INVALID_DECK_ID" -> 400
      [] error = "INVALID_USER_ID" -> 400
      [] error = "NO_VALID_QUESTIONS" -> 400
      [] error = "AI_GENERATION_FAILED" -> 502
      [] OTHER -> 500

\* The switch of the catch block.
StatusOf(error) ==
    CASE error = "INVALID_DECK_ID" -> 400
      [] error = "INVALID_USER_ID" -> 400
      [] error = "DECK_NOT_FOUND" -> 404
      [] error = "NO_VALID_QUESTIONS" -> 400
      [] error = "AI_GENERATION_FAILED" -> 502
      [] OTHER -> 500

\* Mutant: the default case keeps the message built from the error.
MessageOf_Raw(error) == "Quiz creation failed: " \o error

MessageOf(error) ==
    IF StatusOf(error) = 500 THEN "A server-side error has occurred"
    ELSE "Quiz creation failed: " \o error

\* Mutant: the slice runs one flashcard into the next batch.
Slice_OneLonger(list, i) ==
    SubSeq(list, i + 1, IF i + batchSize + 1 < Len(list) THEN i + batchSize + 1 ELSE Len(list))

\* deckTermsAndDef.slice(i, i + batchSize)
Slice(list, i) == SubSeq(list, i + 1, IF i + batchSize < Len(list) THEN i + batchSize ELSE Len(list))


(* ------------------------------ Init ---------------------------------- *)
Card(at, deleted) == [created_at |-> at, is_deleted |-> deleted]

\* The flashcards of decks/d1 before the first request: only a soft-deleted one,
\* one, a soft-deleted and a live one, exactly a batch, a batch and five.
InitialFlashcards ==
    { <<Card(0, TRUE)>>,
      <<Card(0, FALSE)>>,
      <<Card(0, TRUE), Card(0, FALSE)>>,
      [k \in 1..batchSize |-> Card(0, FALSE)],
      [k \in 1..(batchSize + 5) |-> Card(0, FALSE)] }

NoLast == [status |-> 0, data |-> NoData]

Init ==
    /\ now = 0
    /\ decks = [d \in ExistingDecks |-> [title |-> "Deck " \o d, has_marker |-> FALSE, made_to_quiz_at |-> 0]]
    /\ flashcards \in [ExistingDecks -> InitialFlashcards]
    /\ quiz = <<>>
    /\ qna = <<>>
    /\ calls = [c \in Callers |-> IdleCall]
    /\ started = 0
    /\ adds = 0
    /\ faults = 0
    /\ last = [d \in ExistingDecks |-> NoLast]
    /\ addedSince = [d \in ExistingDecks |-> FALSE]

(* ------------------------- environment -------------------------------- *)
\* Time passes.
Tick ==
    /\ now < MaxTime
    /\ now' = now + 1
    /\ UNCHANGED <<decks, flashcards, quiz, qna, calls, started, adds, faults, last, addedSince>>

\* The items createFlashcard adds: those with a string term and no non-string definition.
RECURSIVE AddedCards(_, _, _)
AddedCards(items, k, at) ==
    IF k > Len(items) THEN <<>>
    ELSE IF NotNonEmptyString(items[k].term) THEN AddedCards(items, k + 1, at)
    ELSE IF ~Falsy(items[k].definition) /\ TypeOf(items[k].definition) # "string" THEN AddedCards(items, k + 1, at)
    ELSE <<Card(at, FALSE)>> \o AddedCards(items, k + 1, at)

FlashcardInputs ==
    { <<[term |-> Str("t"), definition |-> Str("d")]>>,
      <<[term |-> Undefined, definition |-> Str("d")], [term |-> Str("t"), definition |-> Undefined]>> }

\* createFlashcard(deckId, flashcards), the deck-editing flow that adds flashcards.
createFlashcard(d, items) ==
    /\ adds < MaxAdds
    /\ Len(items) > 0
    /\ adds' = adds + 1
    /\ flashcards' = [flashcards EXCEPT ![d] = @ \o AddedCards(items, 1, now)]
    /\ addedSince' = [addedSince EXCEPT ![d] = TRUE]
    /\ UNCHANGED <<now, decks, quiz, qna, calls, started, faults, last>>

(* ---------------------- geminiQuizService ----------------------------- *)
InFlight(c) == calls[c].pc \notin {"idle", "done"}

\* The deck document the request is about.
DeckOf(c) == calls[c].deckId.s

\* Mutant: the envelope names the deck where it should name the requester.
Return_OwnerIsDeck(c, rec) ==
    /\ calls' = [calls EXCEPT ![c] =
            [rec EXCEPT !.pc = "done", !.request_owner_id = rec.deckId,
                        !.list = <<>>, !.i = 0, !.madeToQuizAt = 0]]
    /\ last' = IF rec.deckId.t = "string" /\ rec.deckId.s \in ExistingDecks
               THEN [last EXCEPT ![rec.deckId.s] = [status |-> rec.status, data |-> rec.data]]
               ELSE last

\* Lines 168-173: the envelope {status, request_owner_id: id, message, data}.
Return(c, rec) ==
    /\ calls' = [calls EXCEPT ![c] =
            [rec EXCEPT !.pc = "done", !.request_owner_id = rec.id,
                        !.list = <<>>, !.i = 0, !.madeToQuizAt = 0, !.cardsRead = 0]]
    /\ last' = IF rec.deckId.t = "string" /\ rec.deckId.s \in ExistingDecks
               THEN [last EXCEPT ![rec.deckId.s] = [status |-> rec.status, data |-> rec.data]]
               ELSE last

\* The catch block: message, data = null and the status of the switch.
Throw(c, rec, error) ==
    Return(c, [rec EXCEPT !.status = StatusOf(error), !.message = MessageOf(error), !.data = NoData,
                          !.error = error])

\* Mutant: the requester id is not validated.
Begin_NoUserIdCheck(c, deckId, id) ==
    /\ started < MaxCalls
    /\ ~InFlight(c)
    /\ started' = started + 1
    /\ LET rec0 == [IdleCall EXCEPT !.deckId = deckId, !.id = id, !.status = 200,
                                    !.message = "Quiz creation for deck is successful"]
           known == deckId.t = "string" /\ deckId.s \in ExistingDecks
           rec == IF known THEN [rec0 EXCEPT !.prev = last[deckId.s]] ELSE rec0
       IN  IF NotNonEmptyString(deckId) THEN Throw(c, rec, "INVALID_DECK_ID")
           ELSE calls' = [calls EXCEPT ![c] = [rec EXCEPT !.pc = "checkField"]] /\ last' = last
    /\ UNCHANGED <<now, decks, flashcards, quiz, qna, adds, faults, addedSince>>

\* Lines 34-49: the call, its validation, and the first read going out.
Begin(c, deckId, id) ==
    /\ started < MaxCalls
    /\ ~InFlight(c)
    /\ started' = started + 1
    /\ LET rec0 == [IdleCall EXCEPT !.deckId = deckId, !.id = id, !.status = 200,
                                   !.message = "Quiz creation for deck is successful"]
           known == deckId.t = "string" /\ deckId.s \in ExistingDecks
           rec == IF known THEN [rec0 EXCEPT !.prev = last[deckId.s]] ELSE rec0
       IN  IF NotNonEmptyString(deckId) THEN Throw(c, rec, "INVALID_DECK_ID")
           ELSE IF NotNonEmptyString(id) THEN Throw(c, rec, "INVALID_USER_ID")
           ELSE calls' = [calls EXCEPT ![c] = [rec EXCEPT !.pc = "checkField"]] /\ last' = last
    /\ UNCHANGED <<now, decks, flashcards, quiz, qna, adds, faults, addedSince>>


\* Line 49, getDeckAndCheckField(deckId, "made_to_quiz_at"): the deck document read.
CheckField(c) ==
    /\ calls[c].pc = "checkField"
    /\ LET me == [calls[c] EXCEPT !.reads = @ + 1]
       IN  IF NotNonEmptyString(calls[c].deckId) THEN Throw(c, calls[c], "INVALID_DECK_ID")
           ELSE IF DeckOf(c) \notin ExistingDecks THEN Throw(c, me, "DECK_NOT_FOUND")
           ELSE /\ calls' = [calls EXCEPT ![c] =
                        [me EXCEPT !.pc = "getQuiz", !.field_exists = decks[DeckOf(c)].has_marker]]
                /\ last' = last
    /\ UNCHANGED <<now, decks, flashcards, quiz, qna, started, adds, faults, addedSince>>

\* Mutant: the branch test with || between the marker test and the quiz test.
NoQuizYet_Either(deckInfo, quizzes) == deckInfo.exists /\ (~deckInfo.field_exists \/ Len(quizzes) = 0)

\* Mutant: the branch test without its look at the quiz collection.
NoQuizYet_MarkerOnly(deckInfo, quizzes) == deckInfo.exists /\ ~deckInfo.field_exists

\* Line 61: deckInfo.exists && !deckInfo.field_exists && (quizzes.length == 0)
NoQuizYet(deckInfo, quizzes) == deckInfo.exists /\ ~deckInfo.field_exists /\ Len(quizzes) = 0

\* Mutant: the quiz query without the assignment quizId = quizzes[0].id.
GetQuiz_NoQuizId(c) ==
    /\ calls[c].pc = "getQuiz"
    /\ IF NotNonEmptyString(calls[c].deckId) THEN Throw(c, calls[c], "INVALID_DECK_ID")
       ELSE LET quizzes == getQuizByDeckIDAndQuizType(DeckOf(c), "multiple-choice")
                me == [calls[c] EXCEPT !.reads = @ + 1]
            IN  /\ IF NoQuizYet([exists |-> TRUE, field_exists |-> me.field_exists], quizzes)
                   THEN calls' = [calls EXCEPT ![c] = [me EXCEPT !.pc = "getDeck", !.path = "full"]]
                   ELSE calls' = [calls EXCEPT ![c] = [me EXCEPT !.pc = "newDeck", !.path = "delta"]]
                /\ last' = last
    /\ UNCHANGED <<now, decks, flashcards, quiz, qna, started, adds, faults, addedSince>>

\* Lines 52-61: the quiz query, quizId = quizzes[0].id, and the choice of the branch.
\* deckInfo.exists is true whenever getDeckAndCheckField returned.
GetQuiz(c) ==
    /\ calls[c].pc = "getQuiz"
    /\ IF NotNonEmptyString(calls[c].deckId) THEN Throw(c, calls[c], "INVALID_DECK_ID")
       ELSE LET quizzes == getQuizByDeckIDAndQuizType(DeckOf(c), "multiple-choice")
                me == [calls[c] EXCEPT !.reads = @ + 1,
                                       !.quizId = IF Len(quizzes) > 0 THEN quizzes[1].id ELSE ""]
            IN  /\ IF NoQuizYet([exists |-> TRUE, field_exists |-> me.field_exists], quizzes)
                   THEN calls' = [calls EXCEPT ![c] = [me EXCEPT !.pc = "getDeck", !.path = "full"]]
                   ELSE calls' = [calls EXCEPT ![c] = [me EXCEPT !.pc = "newDeck", !.path = "delta"]]
                /\ last' = last
    /\ UNCHANGED <<now, decks, flashcards, quiz, qna, started, adds, faults, addedSince>>

\* Mutant: getDeckById without its test for an empty flashcard list.
GetDeck_NoEmptyCheck(c) ==
    /\ calls[c].pc = "getDeck"
    /\ LET d == DeckOf(c)
           me == [calls[c] EXCEPT !.reads = @ + 1]
       IN  IF NotNonEmptyString(calls[c].deckId)
           THEN Throw(c, calls[c], "INVALID_DECK_ID") /\ addedSince' = addedSince
           ELSE IF d \notin ExistingDecks
           THEN Throw(c, me, "DECK_NOT_FOUND") /\ addedSince' = addedSince
           ELSE LET live == NonDeleted(flashcards[d])
                    got == [me EXCEPT !.reads = @ + 1, !.noAdd = ~addedSince[d],
                                      !.cardsRead = Len(flashcards[d])]
                IN  /\ addedSince' = [addedSince EXCEPT ![d] = FALSE]
                    /\ calls' = [calls EXCEPT ![c] =
                            [got EXCEPT !.pc = "createQuiz",
                                        !.list = formatDeck(d, flashcards[d], live).questions]]
                    /\ last' = last
    /\ UNCHANGED <<now, decks, flashcards, quiz, qna, started, adds, faults>>

\* Lines 68-69, getDeckById: the deck document and its non-deleted flashcards.
GetDeck(c) ==
    /\ calls[c].pc = "getDeck"
    /\ LET d == DeckOf(c)
           me == [calls[c] EXCEPT !.reads = @ + 1]
       IN  IF NotNonEmptyString(calls[c].deckId)
           THEN Throw(c, calls[c], "INVALID_DECK_ID") /\ addedSince' = addedSince
           ELSE IF d \notin ExistingDecks
           THEN Throw(c, me, "DECK_NOT_FOUND") /\ addedSince' = addedSince
           ELSE LET live == NonDeleted(flashcards[d])
                    got == [me EXCEPT !.reads = @ + 1, !.noAdd = ~addedSince[d],
                                      !.cardsRead = Len(flashcards[d])]
                IN  /\ addedSince' = [addedSince EXCEPT ![d] = FALSE]
                    /\ IF Len(live) = 0 THEN Throw(c, got, "NO_VALID_FLASHCARDS")
                       ELSE /\ calls' = [calls EXCEPT ![c] =
                                    [got EXCEPT !.pc = "createQuiz",
                                                !.list = formatDeck(d, flashcards[d], live).questions]]
                            /\ last' = last
    /\ UNCHANGED <<now, decks, flashcards, quiz, qna, started, adds, faults>>

\* Mutant: the container is stored without the id of its deck.
AddQuizDoc_NoDeckId(quizData, pos) ==
    LET doc == [id |-> QuizDocId(Len(quiz) + 1),
                associated_deck_id |-> "",
                is_deleted |-> quizData.is_deleted,
                quiz_type |-> quizData.quiz_type]
    IN  SubSeq(quiz, 1, pos) \o <<doc>> \o SubSeq(quiz, pos + 1, Len(quiz))

\* Mutant: the container is written with set() under the deck's quiz, replacing the
\* quiz documents the deck already has.
AddQuizDoc_Overwrite(quizData, pos) ==
    LET doc == [id |-> QuizDocId(Len(quiz) + 1),
                associated_deck_id |-> quizData.associated_deck_id,
                is_deleted |-> quizData.is_deleted,
                quiz_type |-> quizData.quiz_type]
        others == SelectSeq(quiz, LAMBDA q : q.associated_deck_id # quizData.associated_deck_id)
    IN  others \o <<doc>>

\* db.collection('quiz').add(quizData): the new document gets a fresh random id, so it
\* may sort anywhere among the documents already there.
AddQuizDoc(quizData, pos) ==
    LET doc == [id |-> QuizDocId(Len(quiz) + 1),
                associated_deck_id |-> quizData.associated_deck_id,
                is_deleted |-> quizData.is_deleted,
                quiz_type |-> quizData.quiz_type]
    IN  SubSeq(quiz, 1, pos) \o <<doc>> \o SubSeq(quiz, pos + 1, Len(quiz))

\* Mutant: the loop leaves for updateDeck after its first batch.
LoopTest_OneBatch(i, list) == IF i = 0 /\ Len(list) > 0 THEN "ai" ELSE "mark"

\* i < deckTermsAndDef.length: another batch, or on to updateDeck.
LoopTest(i, list) == IF i < Len(list) THEN "ai" ELSE "mark"

\* Mutant: the container is created only when the deck has none, else the one there is used.
CreateQuiz_IfAbsent(c) ==
    /\ calls[c].pc = "createQuiz"
    /\ LET quizzes == getQuizByDeckIDAndQuizType(DeckOf(c), "multiple-choice")
       IN  IF Len(quizzes) > 0
           THEN /\ quiz' = quiz
                /\ calls' = [calls EXCEPT ![c] =
                        [@ EXCEPT !.pc = LoopTest(0, calls[c].list), !.quizId = quizzes[1].id, !.i = 0,
                                  !.createdQuiz = TRUE]]
           ELSE \E pos \in 0..Len(quiz) :
                   /\ quiz' = AddQuizDoc([associated_deck_id |-> DeckOf(c), is_deleted |-> FALSE,
                                          quiz_type |-> "multiple-choice"], pos)
                   /\ calls' = [calls EXCEPT ![c] =
                           [@ EXCEPT !.pc = LoopTest(0, calls[c].list), !.quizId = QuizDocId(Len(quiz) + 1),
                                     !.i = 0, !.writes = @ + 1, !.createdQuiz = TRUE]]
    /\ UNCHANGED <<now, decks, flashcards, qna, started, adds, faults, last, addedSince>>

\* Mutant: the container's id is taken from a fresh document reference that is never written.
CreateQuiz_IdOnly(c) ==
    /\ calls[c].pc = "createQuiz"
    /\ quiz' = quiz
    /\ calls' = [calls EXCEPT ![c] =
            [@ EXCEPT !.pc = LoopTest(0, calls[c].list), !.quizId = QuizDocId(Len(quiz) + 1), !.i = 0,
                      !.writes = @ + 1, !.createdQuiz = TRUE]]
    /\ UNCHANGED <<now, decks, flashcards, qna, started, adds, faults, last, addedSince>>

\* Lines 72-80, createQuizForDeck and the first loop test.
CreateQuiz(c) ==
    /\ calls[c].pc = "createQuiz"
    /\ \E pos \in 0..Len(quiz) :
          /\ quiz' = AddQuizDoc([associated_deck_id |-> DeckOf(c), is_deleted |-> FALSE,
                                 quiz_type |-> "multiple-choice"], pos)
          /\ calls' = [calls EXCEPT ![c] =
                  [@ EXCEPT !.pc = LoopTest(0, calls[c].list), !.quizId = QuizDocId(Len(quiz) + 1), !.i = 0,
                            !.writes = @ + 1, !.createdQuiz = TRUE]]
    /\ UNCHANGED <<now, decks, flashcards, qna, started, adds, faults, last, addedSince>>

\* Mutant: the test without Array.isArray.
InvalidAiResponse_NoArrayTest(result) == Falsy(result.quiz_data)

\* !result.quiz_data || !Array.isArray(result.quiz_data.quiz)
InvalidAiResponse(result) ==
    \/ Falsy(result.quiz_data)
    \/ ~IsArray(result.quiz_data.quiz)

\* quizPrompt(number): the prompt asks for exactly `number` questions.
quizPrompt(number) == [questions |-> number]

\* formatData(questionsChunk): one entry per flashcard of the chunk, in order, led by its id.
formatData(questionsChunk) == [k \in 1..Len(questionsChunk) |-> questionsChunk[k].id]

\* Lines 82-93 and 115-126: the batch, its prompt, the AI call and the test of its result.
\* aiLog keeps the prompt, the data and the outcome of every AI call of the request,
\* aiReturned the number of entries in the arrays the AI handed back.
AiCall(c) ==
    /\ calls[c].pc = "ai"
    /\ LET batch == Slice(calls[c].list, calls[c].i)
           prompt == quizPrompt(Len(batch))
       IN  \E r \in sendPromptInline(batch) :
              LET me == [calls[c] EXCEPT !.aiCalls = @ + 1, !.result = r,
                                         !.aiLog = Append(@, [prompt |-> prompt, data |-> formatData(batch),
                                                              result |-> r])]
              IN  IF r.t = "throw" THEN Throw(c, me, "AI_GENERATION_FAILED")
                  ELSE IF InvalidAiResponse(r) THEN Throw(c, me, "AI_GENERATION_FAILED")
                  ELSE /\ calls' = [calls EXCEPT ![c] =
                               [me EXCEPT !.pc = "append",
                                          !.aiReturned = IF IsArray(r.quiz_data.quiz)
                                                           THEN @ + Len(r.quiz_data.quiz.items)
                                                           ELSE @]]
                       /\ last' = last
    /\ UNCHANGED <<now, decks, flashcards, quiz, qna, started, adds, faults, addedSince>>

\* Mutant: createQuestionAndAnswer is not awaited; the loop goes on while its writes are
\* still to come.
AppendBatch_NotAwaited(c) ==
    /\ calls[c].pc = "append"
    /\ LET me == [calls[c] EXCEPT !.result = Null]
           next == me.i + batchSize
       IN  /\ calls' = [calls EXCEPT ![c] =
                   [me EXCEPT !.i = next, !.batches = @ + 1, !.pc = LoopTest(next, me.list)]]
           /\ last' = last
    /\ UNCHANGED <<now, decks, flashcards, quiz, qna, faults, started, adds, addedSince>>

\* Lines 95-97 and 128-130: createQuestionAndAnswer for the batch, then the loop test.
AppendBatch(c) ==
    /\ calls[c].pc = "append"
    /\ LET items == calls[c].result.quiz_data.quiz
       IN  \E faultAt \in (IF faults < MaxFaults /\ IsArray(items) THEN 0..Len(items.items) ELSE {0}) :
              LET res == createQuestionAndAnswer(calls[c].quizId, items, faultAt)
                  me == [calls[c] EXCEPT !.writes = @ + res.writes, !.result = Null]
                  next == me.i + batchSize
              IN  /\ qna' = qna \o res.docs
                  /\ faults' = IF res.error = "UNAVAILABLE" THEN faults + 1 ELSE faults
                  /\ IF res.error # ""
                     THEN Throw(c, [me EXCEPT !.fault = (res.error = "UNAVAILABLE")], res.error)
                     ELSE /\ calls' = [calls EXCEPT ![c] =
                                  [me EXCEPT !.i = next, !.batches = @ + 1,
                                             !.pc = LoopTest(next, me.list)]]
                          /\ last' = last
    /\ UNCHANGED <<now, decks, flashcards, quiz, started, adds, addedSince>>

\* Mutant: the already-quizzed path returns without its updateDeck.
Mark_FullPathOnly(c) ==
    /\ calls[c].pc = "mark"
    /\ decks' = IF calls[c].path = "full"
                THEN [decks EXCEPT ![DeckOf(c)] = updateDeck(@, [made_to_quiz_at |-> now])]
                ELSE decks
    /\ LET me == [calls[c] EXCEPT !.writes = @ + 1, !.wroteMarker = TRUE]
       IN  IF me.path = "full"
           THEN Return(c, [me EXCEPT !.data = [k |-> "quizId", quizId |-> me.quizId]])
           ELSE Return(c, [me EXCEPT !.data = [k |-> "no_of_new_flashcards", n |-> Len(me.list)],
                                     !.message = "Quiz creation for new flashcards in deck is successful"])
    /\ UNCHANGED <<now, flashcards, quiz, qna, started, adds, faults, addedSince>>

\* Lines 100-103 and 132-135: updateDeck(deckId, {made_to_quiz_at: timeStamp}) and the result.
Mark(c) ==
    /\ calls[c].pc = "mark"
    /\ decks' = [decks EXCEPT ![DeckOf(c)] = updateDeck(@, [made_to_quiz_at |-> now])]
    /\ LET me == [calls[c] EXCEPT !.writes = @ + 1, !.wroteMarker = TRUE]
       IN  IF me.path = "full"
           THEN Return(c, [me EXCEPT !.data = [k |-> "quizId", quizId |-> me.quizId]])
           ELSE Return(c, [me EXCEPT !.data = [k |-> "no_of_new_flashcards", n |-> Len(me.list)],
                                     !.message = "Quiz creation for new flashcards in deck is successful"])
    /\ UNCHANGED <<now, flashcards, quiz, qna, started, adds, faults, addedSince>>

\* quizUpdateDate != ""
NotLooselyEmpty(x) ==
    ~ \/ (x.t = "string" /\ x.s = "")
      \/ (x.t = "number" /\ x.n = 0)

\* Lines 109, getNewFlashcards(deckId) up to the marker: the deck document read and
\* lines 161-166. The engine passes no quizUpdateDate; with no marker on the deck the
\* seeding update is handed {made_to_quiz_at: undefined}, which the store client rejects.
NewDeck(c) ==
    /\ calls[c].pc = "newDeck"
    /\ LET d == DeckOf(c)
           quizUpdateDate == Undefined
           me == [calls[c] EXCEPT !.reads = @ + 1]
       IN  IF NotNonEmptyString(calls[c].deckId) THEN Throw(c, calls[c], "INVALID_DECK_ID")
           ELSE IF d \notin ExistingDecks THEN Throw(c, me, "DECK_NOT_FOUND")
           ELSE IF ~decks[d].has_marker /\ NotLooselyEmpty(quizUpdateDate)
           THEN Throw(c, me, "Cannot use undefined as a Firestore value")
           ELSE /\ calls' = [calls EXCEPT ![c] =
                        [me EXCEPT !.pc = "newQuery", !.madeToQuizAt = decks[d].made_to_quiz_at]]
                /\ last' = last
    /\ UNCHANGED <<now, decks, flashcards, quiz, qna, started, adds, faults, addedSince>>

\* Mutant: numOfNewFlashCards >= 0.
HasNew_OrNone(numOfNewFlashCards) == numOfNewFlashCards >= 0

\* numOfNewFlashCards > 0
HasNew(numOfNewFlashCards) == numOfNewFlashCards > 0

\* Lines 109-114 and 136-139: the flashcard query of getNewFlashcards and the test on its size.
NewQuery(c) ==
    /\ calls[c].pc = "newQuery"
    /\ LET d == DeckOf(c)
           newFlashcards == NewFlashcardsQuery(flashcards[d], calls[c].madeToQuizAt)
           me == [calls[c] EXCEPT !.reads = @ + 1, !.list = newFlashcards, !.noAdd = ~addedSince[d],
                                   !.cardsRead = Len(flashcards[d])]
       IN  /\ addedSince' = [addedSince EXCEPT ![d] = FALSE]
           /\ IF HasNew(Len(newFlashcards))
              THEN calls' = [calls EXCEPT ![c] = [me EXCEPT !.pc = LoopTest(0, newFlashcards), !.i = 0]]
                   /\ last' = last
              ELSE Return(c, [me EXCEPT !.data = [k |-> "quiz_id", quiz_id |-> me.quizId],
                                        !.message = "There is already a quiz made for this deck in the 'quiz' collection"])
    /\ UNCHANGED <<now, decks, flashcards, quiz, qna, started, adds, faults>>

\* A store read or write rejects (the store is unavailable): the error reaches the catch block.
StoreFault(c) ==
    /\ calls[c].pc \in {"checkField", "getQuiz", "getDeck", "createQuiz", "mark", "newDeck", "newQuery"}
    /\ faults < MaxFaults
    /\ faults' = faults + 1
    /\ Throw(c, [calls[c] EXCEPT !.fault = TRUE], "UNAVAILABLE")
    /\ UNCHANGED <<now, decks, flashcards, quiz, qna, started, adds, addedSince>>

(* --------------------------- specifications --------------------------- *)
Step(c) ==
    \/ CheckField(c)
    \/ GetQuiz(c)
    \/ GetDeck(c)
    \/ CreateQuiz(c)
    \/ AiCall(c)
    \/ AppendBatch(c)
    \/ Mark(c)
    \/ NewDeck(c)
    \/ NewQuery(c)
    \/ StoreFault(c)

AddFlashcard == \E d \in ExistingDecks, items \in FlashcardInputs : createFlashcard(d, items)

\* One request at a time.
Call == \E deckId \in DeckIdInputs, id \in UserIdInputs : Begin(1, deckId, id)

Next == Tick \/ AddFlashcard \/ Call \/ Step(1)

Spec == Init /\ [][Next]_vars

\* Requests overlap: two clients ask for a quiz of the same small deck.
InitConc ==
    /\ Init
    /\ \A d \in ExistingDecks : Len(flashcards[d]) <= 2

CallAny ==
    /\ started < MaxOverlappingCalls
    /\ \E c \in Callers, deckId \in DeckIdInputs, id \in UserIdInputs : Begin(c, deckId, id)

NextConc == Tick \/ AddFlashcard \/ CallAny \/ \E c \in Callers : Step(c)

SpecConc == InitConc /\ [][NextConc]_vars

\* One request at a time on a small deck.
SpecSmall == InitConc /\ [][Next]_vars


(* ----------------------------- properties ----------------------------- *)
Finished(c) == calls[c].pc = "done"
ValidIds(r) == r.deckId.t = "string" /\ r.deckId.s # "" /\ r.id.t = "string" /\ r.id.s # ""

\* The three successful outcomes of the envelope.
IsCreated(r) == r.status = 200 /\ r.data.k = "quizId"
IsExtended(r) == r.status = 200 /\ r.data.k = "no_of_new_flashcards"
IsUnchanged(r) == r.status = 200 /\ r.data.k = "quiz_id"

\* The multiple-choice quiz documents of a deck.
QuizzesOf(d) == {n \in 1..Len(quiz) : quiz[n].associated_deck_id = d /\ quiz[n].quiz_type = "multiple-choice"}

\* The non-deleted flashcards of a quizzed deck created at or after its marker.
NewCardsOf(d) ==
    {n \in 1..Len(flashcards[d]) :
        ~flashcards[d][n].is_deleted /\ flashcards[d][n].created_at >= decks[d].made_to_quiz_at}

\* C1: a request whose deckId is empty or not a string, or whose requester id is empty
\* or not a string, ends with status 400 and data null, having made no store read, no
\* store write and no AI call.
C1_ValidationBeforeIO ==
    \A c \in Callers :
        Finished(c) /\ ~ValidIds(calls[c])
        => /\ calls[c].status = 400
           /\ calls[c].data.k = "null"
           /\ calls[c].reads = 0
           /\ calls[c].writes = 0
           /\ calls[c].aiCalls = 0

C1_Witness ==
    \E c \in Callers :
        /\ Finished(c)
        /\ calls[c].deckId.t = "number"
        /\ calls[c].id.t = "string" /\ calls[c].id.s = "u1"
        /\ calls[c].status = 400

\* C2: a request with well-formed ids for a deck that has no document ends with status
\* 404 (unless the store itself rejected the read), and in every case has written
\* nothing and called the AI client never.
C2_AbsentDeck404 ==
    \A c \in Callers :
        Finished(c) /\ ValidIds(calls[c]) /\ calls[c].deckId.s \notin ExistingDecks
        => /\ (~calls[c].fault => calls[c].status = 404)
           /\ calls[c].data.k = "null"
           /\ calls[c].writes = 0
           /\ calls[c].aiCalls = 0
           /\ ~calls[c].createdQuiz
           /\ ~calls[c].wroteMarker

C2_Witness ==
    \E c \in Callers :
        /\ Finished(c) /\ ValidIds(calls[c]) /\ calls[c].deckId.s = "d2"
        /\ calls[c].status = 404 /\ calls[c].reads = 1


\* C3: a request on a quizzed deck none of whose non-deleted flashcards was created at
\* or after the marker returns UNCHANGED with the id of the deck's quiz and writes
\* nothing; and when the request before it on the deck returned UNCHANGED and no
\* flashcard was added since, it returns UNCHANGED with the same quiz id, having
\* written nothing.
C3_NoNewCardsStep ==
    \A c \in Callers :
        (/\ calls[c].pc = "newQuery"
         /\ calls'[c].pc # "newQuery"
         /\ ~calls'[c].fault
         /\ NewCardsOf(DeckOf(c)) = {})
        => /\ Finished(c)'
           /\ IsUnchanged(calls'[c])
           /\ QuizzesOf(DeckOf(c)) # {}
           /\ calls'[c].data.quiz_id = quiz[CHOOSE n \in QuizzesOf(DeckOf(c)) : \A m \in QuizzesOf(DeckOf(c)) : n <= m].id
           /\ <<decks, quiz, qna>>' = <<decks, quiz, qna>>

C3_SecondCall ==
    \A c \in Callers :
        (Finished(c) /\ ValidIds(calls[c]) /\ ~calls[c].fault /\ IsUnchanged(calls[c].prev) /\ calls[c].noAdd)
        => /\ IsUnchanged(calls[c])
           /\ calls[c].data.quiz_id = calls[c].prev.data.quiz_id
           /\ calls[c].writes = 0

C3_IdempotentNoOp == [][C3_NoNewCardsStep]_vars /\ []C3_SecondCall

C3_Witness ==
    \E c \in Callers :
        /\ Finished(c) /\ IsUnchanged(calls[c].prev) /\ calls[c].noAdd
        /\ IsUnchanged(calls[c]) /\ calls[c].data.quiz_id = "q1"


\* C4 as stated: after a request returned CREATED, the next request on the deck, no
\* flashcard having been added in between, returns UNCHANGED with the quiz id CREATED
\* returned and has made no store write and no AI call, whatever the created_at of the
\* deck's flashcards.
C4_AsStated ==
    \A c \in Callers :
        (Finished(c) /\ ValidIds(calls[c]) /\ ~calls[c].fault /\ IsCreated(calls[c].prev) /\ calls[c].noAdd)
        => /\ IsUnchanged(calls[c])
           /\ calls[c].data.quiz_id = calls[c].prev.data.quizId
           /\ calls[c].writes = 0
           /\ calls[c].aiCalls = 0

\* C5: with one request at a time, no deck ever has more than one quiz document of
\* type multiple-choice.
C5_AtMostOneQuiz ==
    \A d \in ExistingDecks \cup {"d2"} : Cardinality(QuizzesOf(d)) <= 1

\* A request failed after it created the container, and the one after it took the
\* already-quizzed path.
C5_Witness ==
    \E c \in Callers :
        /\ Finished(c) /\ calls[c].path = "delta" /\ calls[c].prev.status = 502
        /\ ~decks["d1"].has_marker
        /\ Cardinality(QuizzesOf("d1")) = 1

\* C6: overlapping requests are not kept apart. A request that read no marker and finds
\* no quiz takes the full-generation branch whatever the other request is doing, and
\* its createQuizForDeck adds a container under a fresh id even when the deck has got
\* one in the meantime; two requests for one deck can so end CREATED with two
\* containers holding questions of the same flashcard (the witness).
C6_NoGuardStep ==
    \A c \in Callers :
        /\ (/\ calls[c].pc = "getQuiz"
            /\ calls'[c].pc # "getQuiz"
            /\ ~calls'[c].fault
            /\ ~calls[c].field_exists
            /\ QuizzesOf(DeckOf(c)) = {})
           => calls'[c].pc = "getDeck" /\ calls'[c].path = "full"
        /\ (/\ calls[c].pc = "createQuiz"
            /\ calls'[c].pc # "createQuiz"
            /\ ~calls'[c].fault)
           => /\ Len(quiz') = Len(quiz) + 1
              /\ \A n \in 1..Len(quiz) : quiz[n].id # calls'[c].quizId
              /\ \E n \in 1..Len(quiz') :
                    quiz'[n].id = calls'[c].quizId /\ quiz'[n].associated_deck_id = DeckOf(c)

C6_ConcurrentRace == [][C6_NoGuardStep]_vars

C6_Witness ==
    /\ Finished(1) /\ Finished(2)
    /\ ValidIds(calls[1]) /\ ValidIds(calls[2])
    /\ calls[1].deckId.s = "d1" /\ calls[2].deckId.s = "d1"
    /\ calls[1].path = "full" /\ calls[2].path = "full"
    /\ IsCreated(calls[1]) /\ IsCreated(calls[2])
    /\ calls[1].data.quizId # calls[2].data.quizId
    /\ Cardinality(QuizzesOf("d1")) = 2
    /\ \E a, b \in 1..Len(qna) :
          /\ qna[a].quiz = calls[1].data.quizId
          /\ qna[b].quiz = calls[2].data.quizId
          /\ qna[a].related_flashcard_id # "null"
          /\ qna[a].related_flashcard_id = qna[b].related_flashcard_id

\* C7: a deck's made_to_quiz_at changes only in the updateDeck step of a request whose
\* every batch had its AI call and its append completed, and that request then returns
\* 200; a request that ends in a failure has not written made_to_quiz_at, and the step
\* in which it fails leaves the deck documents as they were.
C7_MarkerStep ==
    /\ \A d \in ExistingDecks :
          decks'[d] # decks[d]
          => \E c \in Callers :
                /\ calls[c].pc = "mark"
                /\ DeckOf(c) = d
                /\ calls[c].path \in {"full", "delta"}
                /\ calls[c].batches >= 1
                /\ (calls[c].batches - 1) * batchSize < Len(calls[c].list)
                /\ Len(calls[c].list) <= calls[c].batches * batchSize
                /\ calls[c].aiCalls = calls[c].batches
                /\ Finished(c)'
                /\ calls'[c].status = 200
    /\ \A c \in Callers :
          (~Finished(c) /\ Finished(c)' /\ calls'[c].status # 200) => decks' = decks

C7_NoMarkerOnFailure ==
    \A c \in Callers : (Finished(c) /\ calls[c].status # 200) => ~calls[c].wroteMarker

C7_MarkerAfterAllBatches == [][C7_MarkerStep]_vars /\ []C7_NoMarkerOnFailure

C7_Witness ==
    \E c \in Callers :
        /\ Finished(c) /\ calls[c].status = 200 /\ calls[c].wroteMarker
        /\ calls[c].batches = 2 /\ calls[c].aiCalls = 2
        /\ decks["d1"].has_marker

\* The AI client threw, or its result has no quiz_data, or quiz_data.quiz is not an array.
C8_FailedResponse(r) ==
    IF r.t = "throw" THEN TRUE
    ELSE IF r.quiz_data.t = "undefined" THEN TRUE
    ELSE r.quiz_data.quiz.t # "array"

\* C8: when the AI call of a batch throws or hands back a result without quiz_data or
\* with a quiz_data.quiz that is not an array, the request ends in that step with status
\* 502 and data null, the questions written so far stay as they are and none is added;
\* and no step ever removes or alters a question already written.
C8_AiFailureStep ==
    /\ \A c \in Callers :
          (/\ calls[c].pc = "ai"
           /\ calls'[c].pc # "ai"
           /\ C8_FailedResponse(calls'[c].result))
          => /\ Finished(c)'
             /\ calls'[c].status = 502
             /\ calls'[c].data.k = "null"
             /\ calls'[c].batches = calls[c].batches
             /\ calls'[c].writes = calls[c].writes
             /\ qna' = qna
             /\ decks' = decks
    /\ Len(qna') >= Len(qna)
    /\ SubSeq(qna', 1, Len(qna)) = qna

C8_AiFailureKeepsEarlierBatches == [][C8_AiFailureStep]_vars

\* The AI call of the second batch failed after the first batch was appended.
C8_Witness ==
    \E c \in Callers :
        /\ Finished(c) /\ calls[c].status = 502 /\ calls[c].data.k = "null"
        /\ calls[c].batches = 1 /\ calls[c].aiCalls = 2
        /\ C8_FailedResponse(calls[c].result)
        /\ \E n \in 1..Len(qna) : qna[n].quiz = calls[c].quizId

\* An entry of an AI batch with a question text, a non-empty array of choices, and in
\* every choice a text and a boolean is_correct.
C9_WellFormed(item) ==
    /\ ~SkipItem(item)
    /\ \A k \in 1..Len(item.choices.items) :
          /\ ~NotNonEmptyString(item.choices.items[k].text)
          /\ item.choices.items[k].is_correct.t = "boolean"

\* C9 as stated: the append of a batch that holds malformed entries next to well-formed
\* ones writes a question for each well-formed entry and the request does not fail in it
\* (unless the store rejected a write).
C9_AsStated_Step ==
    \A c \in Callers :
        (/\ calls[c].pc = "append"
         /\ calls'[c].pc # "append"
         /\ ~calls'[c].fault
         /\ calls[c].quizId # ""
         /\ IsArray(calls[c].result.quiz_data.quiz)
         /\ \E j \in 1..Len(calls[c].result.quiz_data.quiz.items) :
               C9_WellFormed(calls[c].result.quiz_data.quiz.items[j])
         /\ \E j \in 1..Len(calls[c].result.quiz_data.quiz.items) :
               ~C9_WellFormed(calls[c].result.quiz_data.quiz.items[j]))
        => /\ calls'[c].status = 200
           /\ Len(qna') = Len(qna) + Cardinality({j \in 1..Len(calls[c].result.quiz_data.quiz.items) :
                                                    C9_WellFormed(calls[c].result.quiz_data.quiz.items[j])})

C9_AsStated == [][C9_AsStated_Step]_vars

\* C10 as stated: a request for a deck that exists and has no marker, no quiz and no
\* non-deleted flashcard ends with status 400 (unless the store rejected a read).
C10_AsStated ==
    \A c \in Callers :
        (/\ Finished(c) /\ ValidIds(calls[c]) /\ ~calls[c].fault
         /\ calls[c].deckId.s \in ExistingDecks
         /\ ~decks[calls[c].deckId.s].has_marker
         /\ QuizzesOf(calls[c].deckId.s) = {}
         /\ Len(NonDeleted(flashcards[calls[c].deckId.s])) = 0)
        => calls[c].status = 400

\* C11: the step in which a request fails for an absent deck or for a deck without a
\* non-deleted flashcard leaves decks, flashcards, quizzes, questions and choices as
\* they were, and the request has written nothing before it: no container, no
\* question, no marker. Every change of a deck, quiz or question document is counted
\* in the writes of the request that made it.
C11_NotFoundStep ==
    /\ \A c \in Callers :
          (~Finished(c) /\ Finished(c)' /\ calls'[c].error \in {"DECK_NOT_FOUND", "NO_VALID_FLASHCARDS"})
          => /\ <<decks, flashcards, quiz, qna>>' = <<decks, flashcards, quiz, qna>>
             /\ calls'[c].writes = 0
             /\ ~calls'[c].createdQuiz
             /\ ~calls'[c].wroteMarker
             /\ calls'[c].aiCalls = 0
    /\ \A c \in Callers :
          (/\ calls[c].pc = "checkField" /\ calls'[c].pc # "checkField" /\ ~calls'[c].fault
           /\ DeckOf(c) \notin ExistingDecks)
          => Finished(c)' /\ calls'[c].error = "DECK_NOT_FOUND"
    /\ \A c \in Callers :
          (/\ calls[c].pc = "getDeck" /\ calls'[c].pc # "getDeck" /\ ~calls'[c].fault
           /\ Len(NonDeleted(flashcards[DeckOf(c)])) = 0)
          => Finished(c)' /\ calls'[c].error = "NO_VALID_FLASHCARDS"
    /\ <<decks, quiz, qna>>' # <<decks, quiz, qna>>
       => \E c \in Callers : InFlight(c) /\ calls'[c].writes > calls[c].writes

C11_NotFoundCommitsNothing == [][C11_NotFoundStep]_vars

C11_Witness ==
    \E c \in Callers :
        /\ Finished(c) /\ calls[c].error = "NO_VALID_FLASHCARDS"
        /\ calls[c].writes = 0 /\ calls[c].reads = 4
        /\ quiz = <<>> /\ qna = <<>> /\ ~decks["d1"].has_marker

C13_RetryStep ==
    /\ \A c \in Callers :
          (/\ calls[c].pc = "getQuiz" /\ calls'[c].pc # "getQuiz" /\ ~calls'[c].fault
           /\ ~decks[DeckOf(c)].has_marker
           /\ QuizzesOf(DeckOf(c)) # {})
          => /\ calls'[c].pc = "newDeck"
             /\ calls'[c].path = "delta"
             /\ \E n \in QuizzesOf(DeckOf(c)) : quiz[n].id = calls'[c].quizId
             /\ quiz' = quiz
    /\ quiz' # quiz
       => \E c \in Callers :
             /\ calls[c].pc = "createQuiz" /\ calls[c].path = "full"
             /\ QuizzesOf(DeckOf(c)) = {}
             /\ Len(quiz') = Len(quiz) + 1

C13_RetryFinal ==
    \A c \in Callers :
        (calls[c].pc # "idle" /\ ValidIds(calls[c]) /\ calls[c].deckId.s \in ExistingDecks)
        => /\ calls[c].path = "delta" => ~calls[c].createdQuiz
           /\ calls[c].createdQuiz
              => \A n \in QuizzesOf(calls[c].deckId.s) : quiz[n].id = calls[c].quizId
           /\ Cardinality(QuizzesOf(calls[c].deckId.s)) <= 1

C13_RetryCreatesNoSecondQuiz == [][C13_RetryStep]_vars /\ []C13_RetryFinal

\* The retry after a request that created the container and then failed in the AI call.
C13_Witness ==
    \E c \in Callers :
        /\ Finished(c) /\ calls[c].prev.status = 502
        /\ calls[c].path = "delta" /\ ~calls[c].createdQuiz /\ calls[c].quizId = "q1"
        /\ Len(quiz) = 1 /\ quiz[1].associated_deck_id = "d1"
        /\ ~decks["d1"].has_marker

\* C14: the flashcard query of the already-quizzed path returns exactly the
\* non-deleted flashcards with created_at >= made_to_quiz_at, each once: one created
\* exactly at the marker's time is among them and the request goes on to generate
\* for it; one created before the marker, or soft-deleted, is never among them.
C14_QueryStep ==
    \A c \in Callers :
        (calls[c].pc = "newQuery" /\ calls'[c].pc # "newQuery" /\ ~calls'[c].fault)
        => LET d == DeckOf(c)
               T == calls[c].madeToQuizAt
               atOrAfter == {n \in 1..Len(flashcards[d]) :
                               ~flashcards[d][n].is_deleted /\ flashcards[d][n].created_at >= T}
               returned == {calls'[c].list[k].id : k \in 1..Len(calls'[c].list)}
           IN  /\ T = decks[d].made_to_quiz_at
               /\ atOrAfter # {}
                  => /\ calls'[c].pc = "ai"
                     /\ returned = {FlashcardId(n) : n \in atOrAfter}
                     /\ Len(calls'[c].list) = Cardinality(atOrAfter)
               /\ atOrAfter = {} => Finished(c)' /\ IsUnchanged(calls'[c])
               /\ \A n \in 1..Len(flashcards[d]) :
                     /\ (~flashcards[d][n].is_deleted /\ flashcards[d][n].created_at = T)
                        => FlashcardId(n) \in returned
                     /\ (flashcards[d][n].is_deleted \/ flashcards[d][n].created_at < T)
                        => FlashcardId(n) \notin returned

C14_InclusiveLowerBound == [][C14_QueryStep]_vars

\* A flashcard created at the marker's time is about to be sent to the AI, one created
\* before it is not.
C14_Witness ==
    \E c \in Callers :
        /\ calls[c].pc = "ai" /\ calls[c].path = "delta"
        /\ calls[c].madeToQuizAt > 0
        /\ \E n, m \in 1..Len(flashcards["d1"]) :
              /\ flashcards["d1"][n].created_at = calls[c].madeToQuizAt
              /\ \E k \in 1..Len(calls[c].list) : calls[c].list[k].id = FlashcardId(n)
              /\ flashcards["d1"][m].created_at < calls[c].madeToQuizAt
              /\ \A k \in 1..Len(calls[c].list) : calls[c].list[k].id # FlashcardId(m)

\* The flashcard ids handed to the AI over the calls of a log, in order.
RECURSIVE LoggedIds(_)
LoggedIds(log) == IF log = <<>> THEN <<>> ELSE log[1].data \o LoggedIds(Tail(log))

\* C15: on a deck with a quiz and a marker whose flashcard query returns k > 0
\* flashcards, the request keeps the quiz id its quiz query found, adds no quiz
\* document, writes every question under that quiz id, has handed the AI exactly the
\* k flashcards of the query when it reaches updateDeck, stamps made_to_quiz_at there
\* and returns EXTENDED with no_of_new_flashcards = k.
C15_DeltaStep ==
    \A c \in Callers :
        LET d == DeckOf(c)
            r == calls[c]
            r2 == calls'[c]
            delta == r.pc \in {"newQuery", "ai", "append", "mark"} /\ r.path = "delta"
            moved == r2.pc # r.pc \/ r2.aiCalls # r.aiCalls
        IN  /\ (delta /\ moved)
               => /\ quiz' = quiz
                  /\ ~r2.createdQuiz
                  /\ r2.quizId = r.quizId
                  /\ \E n \in QuizzesOf(d) : quiz[n].id = r.quizId
                  /\ \A n \in (Len(qna) + 1)..Len(qna') : qna'[n].quiz = r.quizId
                  /\ (r.pc # "mark" => decks' = decks)
            /\ (delta /\ moved /\ r.pc = "newQuery" /\ r2.pc = "ai")
               => LET k == Cardinality({n \in 1..Len(flashcards[d]) :
                                           /\ ~flashcards[d][n].is_deleted
                                           /\ flashcards[d][n].created_at >= decks[d].made_to_quiz_at})
                  IN  k > 0 /\ Len(r2.list) = k /\ r2.aiLog = <<>>
            /\ (delta /\ moved /\ r.pc \in {"ai", "append"} /\ ~Finished(c)')
               => r2.list = r.list
            /\ (delta /\ moved /\ r.pc = "mark" /\ ~r2.fault)
               => /\ Finished(c)'
                  /\ IsExtended(r2)
                  /\ r2.data.n = Len(r.list)
                  /\ LoggedIds(r.aiLog) = [k \in 1..Len(r.list) |-> r.list[k].id]
                  /\ decks'[d].has_marker /\ decks'[d].made_to_quiz_at = now

C15_ExtendedFinal ==
    \A c \in Callers :
        (Finished(c) /\ IsExtended(calls[c]))
        => /\ calls[c].path = "delta"
           /\ ~calls[c].createdQuiz
           /\ calls[c].wroteMarker
           /\ calls[c].data.n > 0
           /\ Len(LoggedIds(calls[c].aiLog)) = calls[c].data.n

C15_DeltaGeneration == [][C15_DeltaStep]_vars /\ []C15_ExtendedFinal

\* One flashcard was added to a quizzed deck and the next request extended the quiz.
C15_Witness ==
    \E c \in Callers :
        /\ Finished(c) /\ IsExtended(calls[c]) /\ calls[c].data.n = 1
        /\ IsCreated(calls[c].prev)
        /\ Len(quiz) = 1 /\ calls[c].quizId = quiz[1].id
        /\ Len(calls[c].aiLog) = 1 /\ calls[c].aiLog[1].data = <<"f2">>
        /\ Len(qna) >= 3 /\ \A n \in 1..Len(qna) : qna[n].quiz = quiz[1].id
        /\ decks["d1"].made_to_quiz_at = now

\* The least n with n * batchSize >= N.
C16_Ceil(N) == (N + batchSize - 1) \div batchSize

\* C16: while a request generates for its N > 0 flashcards, the j-th AI call was
\* handed the j-th run of batchSize consecutive flashcards of the list (the last run
\* shorter when batchSize does not divide N) under a prompt asking for as many
\* questions as the run has flashcards, and every AI call but the one in progress
\* was followed by one append; when the request reaches updateDeck it has made
\* ceil(N / batchSize) AI calls and as many appends, and the runs together are the
\* list, each flashcard once.
C16_BatchesPartition ==
    \A c \in Callers :
        calls[c].pc \in {"ai", "append", "mark"}
        => LET r == calls[c]
               N == Len(r.list)
               n == Len(r.aiLog)
               ids == [k \in 1..N |-> r.list[k].id]
               upTo(j) == IF j * batchSize < N THEN j * batchSize ELSE N
           IN  /\ N > 0
               /\ r.aiCalls = n
               /\ r.batches = IF r.pc = "append" THEN n - 1 ELSE n
               /\ r.i = r.batches * batchSize
               /\ \A j \in 1..n :
                     /\ r.aiLog[j].data = SubSeq(ids, (j - 1) * batchSize + 1, upTo(j))
                     /\ r.aiLog[j].prompt.questions = Len(r.aiLog[j].data)
                     /\ Len(r.aiLog[j].data) > 0
                     /\ j < C16_Ceil(N) => Len(r.aiLog[j].data) = batchSize
                     /\ j = C16_Ceil(N) => Len(r.aiLog[j].data) = N - batchSize * (C16_Ceil(N) - 1)
               /\ n <= C16_Ceil(N)
               /\ r.pc = "ai" => n < C16_Ceil(N)
               /\ r.pc = "mark"
                  => /\ n = C16_Ceil(N)
                     /\ LoggedIds(r.aiLog) = ids
                     /\ \A k \in 1..N : Cardinality({m \in 1..N : LoggedIds(r.aiLog)[m] = ids[k]}) = 1

\* Twenty-five flashcards went out as batches of 20 and 5.
C16_Witness ==
    \E c \in Callers :
        /\ calls[c].pc = "mark" /\ Len(calls[c].list) = 25
        /\ calls[c].aiCalls = 2 /\ calls[c].batches = 2
        /\ Len(calls[c].aiLog[1].data) = 20 /\ calls[c].aiLog[1].prompt.questions = 20
        /\ Len(calls[c].aiLog[2].data) = 5 /\ calls[c].aiLog[2].prompt.questions = 5

\* The question documents of a quiz.
C17_QuestionsOf(quizId) == {n \in 1..Len(qna) : qna[n].quiz = quizId}

\* An AI entry the store keeps: a non-empty string for a question, no
\* related_flashcard_id or a string, and a non-empty array of choices.
C17_Kept(item) ==
    /\ item.question.t = "string" /\ item.question.s # ""
    /\ item.related_flashcard_id.t \in {"string", "null", "undefined"}
    /\ item.choices.t = "array" /\ Len(item.choices.items) > 0

\* The number of kept entries over the AI calls of a log.
RECURSIVE C17_KeptIn(_)
C17_KeptIn(log) ==
    IF log = <<>> THEN 0
    ELSE Cardinality({j \in 1..Len(log[1].result.quiz_data.quiz.items) :
                         C17_Kept(log[1].result.quiz_data.quiz.items[j])})
         + C17_KeptIn(Tail(log))

C18_AsStated_Step ==
    \A c \in Callers :
        (calls[c].pc = "append" /\ calls'[c].pc \in {"ai", "mark"})
        => \A n \in (Len(qna) + 1)..Len(qna') :
              Cardinality({k \in 1..Len(qna'[n].choices) : qna'[n].choices[k].is_correct}) = 1

C18_AsStated == [][C18_AsStated_Step]_vars

\* The error codes the switch of the catch block names.
C19_Classified == {"INVALID_DECK_ID", "INVALID_USER_ID", "DECK_NOT_FOUND", "NO_VALID_QUESTIONS",
                   "AI_GENERATION_FAILED"}

C19_Envelope(c) ==
    <<calls[c].status, calls[c].request_owner_id, calls[c].message, calls[c].data>>

\* C19: a request that fails returns data null; when its error is one the switch
\* names, the message is 'Quiz creation failed: ' and that code; for any other error
\* the status is 500 and the message the fixed text, so two failed requests of one
\* requester whose errors are both unnamed return the same envelope.
C19_FailureEnvelope ==
    /\ \A c \in Callers :
          (Finished(c) /\ calls[c].status # 200)
          => /\ calls[c].data.k = "null"
             /\ calls[c].error \in C19_Classified
                => /\ calls[c].message = "Quiz creation failed: " \o calls[c].error
                   /\ calls[c].status \in {400, 404, 502}
             /\ calls[c].error \notin C19_Classified
                => /\ calls[c].message = "A server-side error has occurred"
                   /\ calls[c].status = 500
    /\ \A c1, c2 \in Callers :
          (/\ Finished(c1) /\ Finished(c2)
           /\ calls[c1].status # 200 /\ calls[c2].status # 200
           /\ calls[c1].error \notin C19_Classified /\ calls[c2].error \notin C19_Classified
           /\ calls[c1].id.t = calls[c2].id.t
           /\ calls[c1].id.t = "string" => calls[c1].id.s = calls[c2].id.s)
          => (/\ calls[c1].status = calls[c2].status
              /\ calls[c1].message = calls[c2].message
              /\ calls[c1].data.k = calls[c2].data.k
              /\ calls[c1].request_owner_id.t = calls[c2].request_owner_id.t)

\* Two requests failed on different internal errors and returned the same envelope.
C19_Witness ==
    /\ Finished(1) /\ Finished(2)
    /\ calls[1].error = "UNAVAILABLE"
    /\ calls[2].error \in {"INVALID_CHOICE_TEXT", "INVALID_CHOICE_CORRECTNESS"}
    /\ calls[1].id.s = calls[2].id.s
    /\ calls[1].status = 500 /\ calls[2].status = 500
    /\ calls[1].message = calls[2].message
    /\ calls[1].data.k = "null" /\ calls[2].data.k = "null"

\* The batch a flashcard of a list falls in, counted from 0.
C20_BatchOf(list, id) == ((CHOOSE k \in 1..Len(list) : list[k].id = id) - 1) \div batchSize

\* C20: an AI call starts only when every earlier AI call of the request has had its
\* append completed, and writes nothing itself; the append after it puts the kept
\* questions of that batch, each with its choices, at the end of the stored questions
\* before the request moves on; so the questions of batch k precede those of batch k + 1.
C20_InOrderStep ==
    \A c \in Callers :
        LET r == calls[c]
            r2 == calls'[c]
        IN  /\ r2.aiCalls > r.aiCalls
               => /\ r.pc = "ai"
                  /\ r2.aiCalls = r.aiCalls + 1
                  /\ r.batches = r.aiCalls
                  /\ r.i = r.batches * batchSize
                  /\ Len(r2.aiLog) = r2.aiCalls
                  /\ r2.aiLog[r2.aiCalls].data =
                        [k \in 1..Len(Slice(r.list, r.i)) |-> r.list[r.i + k].id]
                  /\ qna' = qna
            /\ (r.pc = "append" /\ r2.pc \in {"ai", "mark"})
               => /\ r2.batches = r.batches + 1
                  /\ r2.batches = r2.aiCalls
                  /\ Len(qna') >= Len(qna)
                  /\ SubSeq(qna', 1, Len(qna)) = qna
                  /\ Len(qna') - Len(qna) = C17_KeptIn(<<r.aiLog[Len(r.aiLog)]>>)
                  /\ \A n \in (Len(qna) + 1)..Len(qna') :
                        /\ qna'[n].quiz = r.quizId
                        /\ Len(qna'[n].choices) > 0
                        /\ qna'[n].related_flashcard_id # "null"
                           => C20_BatchOf(r.list, qna'[n].related_flashcard_id) = r.batches

C20_InOrderState ==
    \A c \in Callers :
        /\ calls[c].pc \in {"ai", "mark"} => calls[c].batches = calls[c].aiCalls
        /\ calls[c].pc = "append" => calls[c].aiCalls = calls[c].batches + 1
        /\ (calls[c].pc \in {"ai", "append", "mark"} /\ calls[c].path = "full")
           => \A n, m \in C17_QuestionsOf(calls[c].quizId) :
                 (/\ n < m
                  /\ qna[n].related_flashcard_id # "null"
                  /\ qna[m].related_flashcard_id # "null")
                 => C20_BatchOf(calls[c].list, qna[n].related_flashcard_id)
                       <= C20_BatchOf(calls[c].list, qna[m].related_flashcard_id)

C20_BatchesInOrder == [][C20_InOrderStep]_vars /\ []C20_InOrderState

\* Both batches of a deck of 25 are in the store, the first before the second.
C20_Witness ==
    \E c \in Callers :
        /\ calls[c].pc = "mark" /\ calls[c].path = "full" /\ calls[c].batches = 2
        /\ \E n, m \in 1..Len(qna) :
              /\ n < m
              /\ qna[n].related_flashcard_id = "f20"
              /\ qna[m].related_flashcard_id = "f21"

\* The order of the full-generation path, step by step: createQuizForDeck is reached
\* only from a getDeckById that returned flashcards, the container is written by that
\* step alone and before any AI call, and every AI call of the path finds it in the store.
C21_OrderStep ==
    \A c \in Callers :
        LET r == calls[c]
            r2 == calls'[c]
        IN  /\ (r.pc # "createQuiz" /\ r2.pc = "createQuiz")
               => /\ r.pc = "getDeck"
                  /\ r2.path = "full"
                  /\ Len(r2.list) > 0
                  /\ r2.aiCalls = 0
                  /\ ~r2.createdQuiz
            /\ (~r.createdQuiz /\ r2.createdQuiz)
               => /\ r.pc = "createQuiz"
                  /\ r.aiCalls = 0
                  /\ Len(quiz') = Len(quiz) + 1
                  /\ \E n \in 1..Len(quiz') : quiz'[n].id = r2.quizId
            /\ (r2.path = "full" /\ r2.aiCalls > r.aiCalls)
               => /\ r.createdQuiz
                  /\ \E n \in 1..Len(quiz) : quiz[n].id = r.quizId

\* Every question document names a quiz document of the store, and a full-generation
\* request whose first AI call failed ends with its container empty and no marker.
C21_OrderState ==
    /\ \A n \in 1..Len(qna) : \E m \in 1..Len(quiz) : quiz[m].id = qna[n].quiz
    /\ \A c \in Callers :
          (/\ Finished(c)
           /\ calls[c].path = "full"
           /\ calls[c].error = "AI_GENERATION_FAILED"
           /\ calls[c].batches = 0)
          => /\ calls[c].createdQuiz
             /\ \E m \in 1..Len(quiz) : quiz[m].id = calls[c].quizId
             /\ C17_QuestionsOf(calls[c].quizId) = {}
             /\ ~calls[c].wroteMarker
             /\ ~decks[DeckOf(c)].has_marker

\* C21: in the full-generation path the deck and its flashcards are fetched before the
\* quiz container is created and the container is created before the first AI call, so
\* every question document belongs to an existing container, and an AI failure on the
\* first batch leaves an empty container and no marker.
C21_ContainerBeforeAi == [][C21_OrderStep]_vars /\ []C21_OrderState

C21_Witness ==
    \E c \in Callers :
        /\ Finished(c) /\ calls[c].status = 502
        /\ calls[c].path = "full" /\ calls[c].createdQuiz
        /\ calls[c].aiCalls = 1 /\ calls[c].batches = 0
        /\ \E m \in 1..Len(quiz) : quiz[m].id = calls[c].quizId
        /\ C17_QuestionsOf(calls[c].quizId) = {}
        /\ ~decks[DeckOf(c)].has_marker

\* The choice of the branch, step by step: the request enters the full-generation path
\* exactly when its deck read saw no marker and its quiz query finds no multiple-choice
\* quiz of the deck, and the already-quizzed path otherwise; only a request on the
\* full-generation path creates a container, and a step of a request on the
\* already-quizzed path leaves the quiz collection as it was.
C22_ClassifyStep ==
    \A c \in Callers :
        LET r == calls[c]
            r2 == calls'[c]
        IN  /\ (r.pc = "getQuiz" /\ r2 # r /\ r2.pc # "done")
               => /\ DeckOf(c) \in ExistingDecks
                  /\ r2.path = "full" <=> (~r.field_exists /\ QuizzesOf(DeckOf(c)) = {})
                  /\ r2.path = "delta" <=> (r.field_exists \/ QuizzesOf(DeckOf(c)) # {})
                  /\ r2.pc = (IF r2.path = "full" THEN "getDeck" ELSE "newDeck")
            /\ (InFlight(c) /\ r.pc \notin {"checkField", "getQuiz"}) => r.path \in {"full", "delta"}
            /\ (~r.createdQuiz /\ r2.createdQuiz) => r.path = "full"
            /\ (r.path = "delta" /\ InFlight(c) /\ r2 # r) => (quiz' = quiz /\ ~r2.createdQuiz)

\* C22 as stated: the branch is chosen as above, and every request that took the
\* full-generation path created a quiz container (unless the store rejected a call).
C22_AsStated ==
    /\ [][C22_ClassifyStep]_vars
    /\ [](\A c \in Callers :
             (Finished(c) /\ calls[c].path = "full" /\ ~calls[c].fault) => calls[c].createdQuiz)

\* On the full-generation path the container is created exactly when getDeckById
\* returned at least one non-deleted flashcard.
C22_CreateStep ==
    \A c \in Callers :
        LET r == calls[c]
            r2 == calls'[c]
        IN  /\ (r.pc = "getDeck" /\ r2 # r /\ ~r2.fault)
               => /\ r2.pc = "createQuiz" <=> Len(NonDeleted(flashcards[DeckOf(c)])) > 0
                  /\ r2.pc = "done" <=> Len(NonDeleted(flashcards[DeckOf(c)])) = 0
                  /\ ~r2.createdQuiz
            /\ (r.pc = "createQuiz" /\ r2 # r /\ ~r2.fault) => r2.createdQuiz

\* C22: a request takes the full-generation path if and only if the deck exists and its
\* reads saw no made_to_quiz_at and no multiple-choice quiz; on that path it creates a
\* quiz container once getDeckById has returned a non-deleted flashcard; in every other
\* combination it takes the already-quizzed path and never creates a container.
C22_Classification == [][C22_ClassifyStep /\ C22_CreateStep]_vars

C22_Witness ==
    \E c1, c2 \in Callers :
        /\ Finished(c1) /\ calls[c1].path = "full" /\ calls[c1].createdQuiz /\ calls[c1].status = 502
        /\ Finished(c2) /\ calls[c2].path = "delta" /\ ~calls[c2].createdQuiz
        /\ ~decks["d1"].has_marker
        /\ Cardinality(QuizzesOf("d1")) = 1

\* C23: a request that returns status 200 with the "already a quiz" message made no
\* store write and no AI call, and the quiz_id of its data is the non-empty id of a
\* multiple-choice quiz document of the store that is associated with the deck.
C23_UnchangedIsNoOp ==
    \A c \in Callers :
        (/\ Finished(c)
         /\ calls[c].status = 200
         /\ calls[c].message = "There is already a quiz made for this deck in the 'quiz' collection")
        => /\ calls[c].writes = 0
           /\ calls[c].aiCalls = 0
           /\ ~calls[c].createdQuiz /\ ~calls[c].wroteMarker /\ calls[c].batches = 0
           /\ calls[c].data.k = "quiz_id"
           /\ calls[c].data.quiz_id # ""
           /\ \E n \in QuizzesOf(calls[c].deckId.s) : quiz[n].id = calls[c].data.quiz_id

C23_Witness ==
    \E c \in Callers :
        /\ Finished(c) /\ IsUnchanged(calls[c])
        /\ calls[c].prev.status = 200 /\ calls[c].prev.data.k = "quizId"
        /\ calls[c].data.quiz_id = calls[c].prev.data.quizId
        /\ calls[c].writes = 0 /\ calls[c].aiCalls = 0
        /\ Len(qna) > 0

\* C24: quiz, question and choice documents are append-only: in every step, of a request
\* that succeeds or fails, every quiz document of the store is still there unchanged,
\* and every question document is still there, in its place, with its fields and its
\* choices unchanged; the collections only grow.
C24_AppendOnlyStep ==
    /\ Len(quiz') >= Len(quiz)
    /\ \A n \in 1..Len(quiz) : \E m \in 1..Len(quiz') : quiz'[m] = quiz[n]
    /\ Len(qna') >= Len(qna)
    /\ \A n \in 1..Len(qna) : qna'[n] = qna[n]

C24_AppendOnly == [][C24_AppendOnlyStep]_vars

C24_Witness ==
    /\ Len(quiz) = 2
    /\ \E n, m \in 1..Len(qna) : n < m /\ qna[n].quiz # qna[m].quiz
    /\ \E c \in Callers : Finished(c) /\ calls[c].status \in {500, 502} /\ calls[c].createdQuiz

\* C25: a step of a reconciliation request, on every path and also when it fails, leaves
\* the flashcards of every deck as they were and changes no field of a deck document
\* other than made_to_quiz_at (has_marker records that the field is there).
C25_FrameStep ==
    (calls' # calls)
    => /\ flashcards' = flashcards
       /\ DOMAIN decks' = DOMAIN decks
       /\ \A d \in DOMAIN decks :
             /\ decks'[d].title = decks[d].title
             /\ DOMAIN decks'[d] = DOMAIN decks[d]

C25_FlashcardsAndDeckFieldsKept == [][C25_FrameStep]_vars

C25_Witness ==
    \E c \in Callers :
        /\ Finished(c) /\ IsExtended(calls[c]) /\ calls[c].wroteMarker
        /\ decks["d1"].title = "Deck d1"
        /\ decks["d1"].has_marker /\ decks["d1"].made_to_quiz_at = now /\ now > 0
        /\ Len(flashcards["d1"]) >= 2

\* C26 as stated: the step of getNewFlashcards that reads the deck writes nothing when
\* the marker is present, and when the engine's request on the already-quizzed path
\* finds a quiz but no marker it ends with a marker on the deck and goes on to a
\* flashcard query bounded by that marker (unless the store rejected the read).
C26_AsStated_Step ==
    \A c \in Callers :
        LET r == calls[c]
            r2 == calls'[c]
            d == DeckOf(c)
        IN  (r.pc = "newDeck" /\ r2 # r /\ ~r2.fault)
            => /\ decks[d].has_marker => (decks' = decks /\ r2.writes = r.writes)
               /\ (~decks[d].has_marker /\ QuizzesOf(d) # {})
                  => /\ decks'[d].has_marker
                     /\ r2.pc = "newQuery"
                     /\ r2.madeToQuizAt = decks'[d].made_to_quiz_at

C26_AsStated == [][C26_AsStated_Step]_vars

\* C27: starting from a store in which no deck has a marker, in every state reached by
\* reconciliation requests, one after the other or interleaved, a deck that has
\* made_to_quiz_at has at least one multiple-choice quiz document associated with it.
C27_MarkerImpliesQuiz ==
    \A d \in ExistingDecks : decks[d].has_marker => QuizzesOf(d) # {}

C27_Witness ==
    /\ decks["d1"].has_marker
    /\ Cardinality(QuizzesOf("d1")) = 2
    /\ \A c \in Callers : Finished(c) /\ calls[c].wroteMarker

\* The AI client and the store served every call of the request: no store call was
\* rejected and every AI call handed back a non-empty array of well-formed entries.
C28_AllServed(r) ==
    /\ ~r.fault
    /\ \A k \in 1..Len(r.aiLog) :
          LET res == r.aiLog[k].result
          IN  /\ ~C8_FailedResponse(res)
              /\ Len(res.quiz_data.quiz.items) > 0
              /\ \A j \in 1..Len(res.quiz_data.quiz.items) : C9_WellFormed(res.quiz_data.quiz.items[j])

\* C28 as stated, for one retry: a request that finds the deck as a failed full
\* generation left it (a quiz container, no marker) and is served by the AI client and
\* the store in all its calls returns status 200 and leaves made_to_quiz_at set.
C28_AsStated ==
    \A c \in Callers :
        (/\ Finished(c)
         /\ calls[c].path = "delta"
         /\ ~calls[c].field_exists
         /\ C28_AllServed(calls[c]))
        => /\ calls[c].status = 200
           /\ decks[DeckOf(c)].has_marker

\* C29 as stated: when a request writes made_to_quiz_at, every non-deleted flashcard
\* that was added to the deck after the request read the flashcards has a created_at
\* at or after the marker written, and so is in the new-flashcard set of the next request.
C29_AsStated_Step ==
    \A c \in Callers :
        LET r == calls[c]
            r2 == calls'[c]
            d == DeckOf(c)
        IN  (r.pc = "mark" /\ ~r.wroteMarker /\ r2.wroteMarker)
            => \A n \in (r.cardsRead + 1)..Len(flashcards[d]) :
                  ~flashcards[d][n].is_deleted
                  => /\ flashcards[d][n].created_at >= decks'[d].made_to_quiz_at
                     /\ FlashcardId(n) \in {NewFlashcardsQuery(flashcards[d], decks'[d].made_to_quiz_at)[k].id :
                                              k \in 1..Len(NewFlashcardsQuery(flashcards[d], decks'[d].made_to_quiz_at))}

C29_AsStated == [][C29_AsStated_Step]_vars

\* C30 as stated: when the AI client hands back a well-formed result whose quiz list
\* is empty, the request ends in the step that handles that batch with status 502
\* (unless the store rejected a call).
C30_AsStated_Step ==
    \A c \in Callers :
        LET r == calls[c]
            r2 == calls'[c]
        IN  (/\ r.pc = "append" /\ r2 # r /\ ~r2.fault
             /\ ~C8_FailedResponse(r.result)
             /\ Len(r.result.quiz_data.quiz.items) = 0)
            => /\ r2.pc = "done"
               /\ r2.status = 502

C30_AsStated == [][C30_AsStated_Step]_vars

====
